---- MODULE Spec2Model ----
(***************************************************************************)
(* lndups: hardlink duplicate files recursively (src/src/main.rs).         *)
(*                                                                         *)
(* The model has two parts.                                                *)
(*  - The run: main's pipeline obtain_run_paths -> check_all_same_device   *)
(*    -> run (register, run_one_size, hardlink_all, hardlink) over a small *)
(*    file system of regular files, one directory and one symlink entry.   *)
(*    Every system call of hardlink (remove_file, hard_link, copy and the  *)
(*    metadata re-read) is one step, and each may fail.                    *)
(*  - split_vec / obtain_run_targets as pure operators, applied by the     *)
(*    specification SplitSpec to every short argument list.               *)
(***************************************************************************)
EXTENDS Integers, Sequences, FiniteSets, TLC

\* ------------------------------------------------------------------ bounds
\* Inode numbers of one device are 1..MaxIno.
MaxIno == 4
\* Longest target set.
MaxTargets == 3
\* Longest argument list given to split_vec.
MaxArgs == 5
\* Longest byte stream given to cmp_read read by read.
MaxBytes == 3

\* ---------------------------------------------------------------- universe
\* Paths of regular files.
Files == {1, 2, 3, 4}
\* The files that the invocations of one or two short target sets name.  File
\* 3 is the one that may live on a second device (below a mount point when it
\* is an entry of the directory).
TargetFiles == {1, 2, 3}
\* The directory target; its entries are a subset of TargetFiles plus Lnk.
Dir == 5
\* A symlink entry of Dir (symlink_metadata reports it as a symlink).
Lnk == 6
Devs == {1, 2}
Inos == 1..MaxIno
\* File contents are byte sequences; st_size is their length.
Contents == {<<>>, <<1>>, <<2>>, <<1, 1>>}
\* --min-size values tried; NoArg is "option not given".
NoArg == -1
MinSizeArgs == {NoArg, 0, 2}

VARIABLES
    \* --- the file system
    pdev,       \* [Files -> Devs]: the device a path lives on (its mount)
    inD,        \* the files that are entries of Dir
    dent,       \* [Files -> 0..MaxIno]: inode number of the path, 0 = absent
    data,       \* [Devs \X Inos -> Contents]: content of each inode
    fs0,        \* the file system before the run: [dent, data]
    \* --- the invocation
    args,       \* [dry_run, min_size]
    run_targets,\* Seq of target sets, each a Seq of targets (paths)
    run_paths,  \* Seq of Seq of PathWithMetadata, from obtain_run_paths
    cur,        \* index of the target set being run (0 before the runs)
    registry,   \* run's registry: [sizes -> Seq of PathWithMetadata]
    pwmds,      \* run_one_size's bucket: Seq of PathWithMetadata
    by_inode,   \* run_one_size's worklist: Seq of clusters (Seq of indices into pwmds)
    i, j,       \* the two cursors of run_one_size (0-based, as in the code)
    k,          \* hardlink_all's position in replaces (1-based)
    pc,         \* where main is
    result,     \* main's return value: "none", "Ok", "Err"
    faulty,     \* whether the environment makes system calls fail
    \* --- what an observer of the run records
    registered, \* <<set, path>> of every record register pushed
    opened,     \* paths opened by cmp
    calls,      \* remove_file / hard_link / copy calls: <<invocation, set, op, keep, replace>>
    reported,   \* "hardlinked" lines written: <<invocation, set, keep, replace>>
    invocation, \* 1 for the first invocation, 2 for the repeated one
    tx,         \* the hardlink call under way or just returned: its paths and
                \* the system calls made so far, each with its outcome
    compared,   \* pairs of clusters cmp was called for in this run_one_size,
                \* each cluster named by its first member
    absorbed,   \* clusters swap_removed in this run_one_size, by first member
    \* --- split_vec
    input, delimiter, chunks, spc,
    \* --- cmp_read on two readers
    bytes1, bytes2, \* what the two readers yield in all
    left1, left2,   \* what they have yet to yield
    cmpres          \* "reading", then cmp_read's result "true", "false", "Err"

fsvars == <<pdev, inD, dent, data, fs0>>
runvars == <<args, run_targets, run_paths, cur, registry, pwmds, by_inode, i, j, k,
             pc, result, faulty, registered, opened, calls, reported, invocation,
             tx, compared, absorbed>>
splitvars == <<input, delimiter, chunks, spc>>
cmpvars == <<bytes1, bytes2, left1, left2, cmpres>>
purevars == <<splitvars, cmpvars>>
vars == <<fsvars, runvars, purevars>>

\* ------------------------------------------------------------- file system
Exists(p) == dent[p] # 0
InoOf(p) == <<pdev[p], dent[p]>>
ContentOf(p) == data[InoOf(p)]
\* Paths linked to inode n of device d.
LinksTo(d, n) == {f \in Files : pdev[f] = d /\ dent[f] = n}
FreeInos(d) == {n \in Inos : LinksTo(d, n) = {}}

\* std::fs::symlink_metadata of a file path (PathWithMetadata::get_md).
GetMd(p, s) ==
    [path |-> p, ino |-> dent[p], dev |-> pdev[p], size |-> Len(ContentOf(p)),
     is_symlink |-> FALSE, set |-> s]
\* Metadata of the directory and of the symlink entry.
DirMd(s) == [path |-> Dir, ino |-> 0, dev |-> 1, size |-> 0, is_symlink |-> FALSE, set |-> s]
LnkMd(s) == [path |-> Lnk, ino |-> 0, dev |-> 1, size |-> 0, is_symlink |-> TRUE, set |-> s]

\* std::fs::remove_file(p), when it succeeds: the entry goes, and the inode
\* with its last link.
RemoveFile(p) ==
    [dent |-> [dent EXCEPT ![p] = 0],
     data |-> IF LinksTo(pdev[p], dent[p]) = {p}
              THEN [data EXCEPT ![InoOf(p)] = <<>>] ELSE data]

\* std::fs::hard_link(src, dst), when it succeeds: dst becomes one more link
\* to src's inode.  It can succeed only within one device, with src present
\* and dst absent.
HardLinkPossible(src, dst) == Exists(src) /\ ~Exists(dst) /\ pdev[src] = pdev[dst]
HardLink(src, dst) == [dent |-> [dent EXCEPT ![dst] = dent[src]], data |-> data]

\* std::fs::copy(src, dst), when it succeeds: dst gets src's bytes, in a new
\* inode n of dst's device when dst is absent, in place otherwise.
CopyPossible(src) == Exists(src)
CopyInos(dst) == IF Exists(dst) THEN {dent[dst]} ELSE FreeInos(pdev[dst])
WriteFile(dst, n, bytes) ==
    [dent |-> [dent EXCEPT ![dst] = n],
     data |-> [data EXCEPT ![<<pdev[dst], n>>] = bytes]]
\* A copy that creates the destination and writes none of the bytes.
CopyTruncated(src, dst, n) == WriteFile(dst, n, <<>>)

\* std::fs::copy: the destination holds the bytes of the source.
Copy(src, dst, n) == WriteFile(dst, n, ContentOf(src))

\* ------------------------------------------------------------------ config
\* A min_size that takes the option as given, without the clamp to 1.
MinSizeUnclamped(a) == IF a = NoArg THEN 1 ELSE a

\* main, Config.min_size: never below 1, 1 when the option is not given.
MinSize(a) == IF a = NoArg THEN 1 ELSE IF a > 1 THEN a ELSE 1
min_size == MinSize(args.min_size)

\* ---------------------------------------------------------------- register
\* Metadata of a path as the walk or obtain_run_paths reads it.
MdOf(p, s) == IF p = Dir THEN DirMd(s) ELSE IF p = Lnk THEN LnkMd(s) ELSE GetMd(p, s)

\* register, for a record that is not a directory: a symlink is skipped; a
\* path that is (now) a file is pushed when its cached size reaches min_size.
RegisterFile(r) ==
    IF r.is_symlink THEN <<>>
    ELSE IF r.path \in Files /\ Exists(r.path) /\ r.size >= min_size THEN <<r>>
    ELSE <<>>

RECURSIVE RegisterEntries(_, _, _)
\* register's loop over read_dir's entries, in the order read_dir gives them;
\* an entry whose metadata cannot be read (unreadable) is skipped.
RegisterEntries(entries, unreadable, s) ==
    IF entries = <<>> THEN <<>>
    ELSE (IF Head(entries) \in unreadable THEN <<>>
          ELSE RegisterFile(MdOf(Head(entries), s)))
         \o RegisterEntries(Tail(entries), unreadable, s)

\* register: a file record, or the entries of the directory.
Register(r, entries, unreadable) ==
    IF r.path = Dir THEN RegisterEntries(entries, unreadable, r.set)
    ELSE RegisterFile(r)

RECURSIVE RegisterAll(_, _, _)
\* run's loop "for pwmd in pwmds { register(pwmd, ...) }": the registered
\* records in registration order.
RegisterAll(rs, entries, unreadable) ==
    IF rs = <<>> THEN <<>>
    ELSE Register(Head(rs), entries, unreadable)
         \o RegisterAll(Tail(rs), entries, unreadable)

\* run's registry after "registry.retain(|_,files| files.len() >= 2)".
Registry(regs) ==
    LET sizes == {regs[n].size : n \in DOMAIN regs}
        bucket(sz) == SelectSeq(regs, LAMBDA r : r.size = sz)
    IN [sz \in {x \in sizes : Len(bucket(x)) >= 2} |-> bucket(sz)]

\* ------------------------------------------------------------ run_one_size
\* Vec::insert(pos, x), pos 0-based.
InsertAt(s, pos, x) == SubSeq(s, 1, pos) \o <<x>> \o SubSeq(s, pos + 1, Len(s))

\* inodes.binary_search(&inode) on the sorted vector of distinct inodes: the
\* index where the inode is, or where it is to be inserted.
BinarySearch(inodes, inode) == Cardinality({n \in DOMAIN inodes : inodes[n] < inode})

RECURSIVE GroupByInode(_, _, _, _)
\* The loop "for pwmd in pwmds" of run_one_size: clusters of indices into the
\* bucket b, keyed by the cached st_ino alone and kept in inode order.
GroupByInode(b, n, inodes, clusters) ==
    IF n > Len(b) THEN clusters
    ELSE LET inode == b[n].ino
             pos == BinarySearch(inodes, inode)
         IN IF pos < Len(inodes) /\ inodes[pos + 1] = inode
            THEN GroupByInode(b, n + 1, inodes,
                              [clusters EXCEPT ![pos + 1] = Append(@, n)])
            ELSE GroupByInode(b, n + 1, InsertAt(inodes, pos, inode),
                              InsertAt(clusters, pos, <<n>>))

\* A run_one_size that leaves the clusters in inode order.
SortByLenNone(clusters, len) == clusters

RECURSIVE SortByLenDesc(_, _)
\* by_inode.sort_by(|a,b| b.len().cmp(&a.len())): a stable sort, larger
\* clusters first.
SortByLenDesc(clusters, len) ==
    IF len = 0 THEN <<>>
    ELSE SelectSeq(clusters, LAMBDA c : Len(c) = len) \o SortByLenDesc(clusters, len - 1)

\* by_inode as run_one_size has it when its comparison loop starts.
Clusters(b) == SortByLenDesc(GroupByInode(b, 1, <<>>, <<>>), Len(b))

\* A swap_remove that leaves the vector as it is.
SwapRemoveNone(s, pos) == s

\* Vec::swap_remove(pos), pos 0-based: the last element takes the place.
SwapRemove(s, pos) ==
    LET last == s[Len(s)]
        front == SubSeq(s, 1, Len(s) - 1)
    IN IF pos + 1 = Len(s) THEN front ELSE [front EXCEPT ![pos + 1] = last]

RECURSIVE LoopPos(_, _, _)
\* Where the two loops of run_one_size stand next, from cursors (a, b) over a
\* worklist of len clusters: the next pair to compare, or done.
LoopPos(a, b, len) ==
    IF a >= len THEN [i |-> a, j |-> b, done |-> TRUE]
    ELSE IF b < len THEN [i |-> a, j |-> b, done |-> FALSE]
    ELSE LoopPos(a + 1, a + 2, len)

\* ------------------------------------------------------------ initial state
\* No hardlink call has been made, or none since the last comparison.
NoTx == [keep |-> 0, replace |-> 0, a |-> 0, b |-> 0, member |-> 0, ino |-> 0,
         steps |-> <<>>, ended |-> TRUE]

Targets == TargetFiles \cup {Dir}
IsSorted(s) == \A n \in 1..(Len(s) - 1) : s[n] <= s[n + 1]
SortedSeqs(S, n) == {s \in UNION {[1..m -> S] : m \in 1..n} : IsSorted(s)}
\* The target sets tried: obtain_run_targets gives non-empty sets.  Within a
\* set the targets are listed in path order (the order of two targets only
\* decides the order of the members inside one cluster).
TargetSets == SortedSeqs(Targets, MaxTargets)

\* The paths a run can reach: the targets, and Dir's entries when Dir is one.
NamedIn(ts) == {ts[n] : n \in DOMAIN ts}
Named(rt) == UNION {NamedIn(rt[s]) : s \in DOMAIN rt}
Reachable(rt, entries) == (Named(rt) \cap Files) \cup (IF Dir \in Named(rt) THEN entries ELSE {})

\* The invocations tried: no target set, one target set, or a short set of
\* files followed by a set that names one of them again or names Dir.
RunTargets ==
    {<<>>} \cup {<<s>> : s \in TargetSets}
    \cup {<<a, b>> : a \in SortedSeqs(TargetFiles, MaxTargets - 1),
                     b \in {t \in TargetSets : Dir \in NamedIn(t)}}
    \cup {rt \in {<<a, b>> : a \in SortedSeqs(TargetFiles, MaxTargets - 1), b \in TargetSets} :
             NamedIn(rt[1]) \cap NamedIn(rt[2]) # {}}

\* dry_run is tried with the default min_size.
Configs == {c \in [dry_run : BOOLEAN, min_size : MinSizeArgs] :
               c.dry_run => c.min_size = NoArg}

\* The entries Dir may have: the files after some file.
DirChoices == {{f \in TargetFiles : f > n} : n \in TargetFiles}

Max(S) == CHOOSE x \in S : \A y \in S : y <= x
Min(S) == CHOOSE x \in S : \A y \in S : x <= y

\* Inode numbers are handed out in path order: a path has the inode number of
\* an earlier path (a hardlink of it, or a number that collides with it across
\* devices) or the next unused one; 0 is a path that does not exist.
InitDents == {d \in [Files -> 0..Cardinality(Files)] :
                 \A f \in Files : d[f] <= 1 + Max({0} \cup {d[g] : g \in {h \in Files : h < f}})}

\* The content of each inode, from one choice per path: the first path of an
\* inode (its leader) decides.
InitData(pd, d, c) ==
    [x \in Devs \X Inos |->
        LET links == {f \in Files : pd[f] = x[1] /\ d[f] = x[2]}
        IN IF links = {} THEN <<>> ELSE c[Min(links)]]
Leaders(pd, d) == {f \in Files : d[f] # 0 /\ f = Min({g \in Files : pd[g] = pd[f] /\ d[g] = d[f]})}
\* The contents tried: the first inode may be empty, one byte or two bytes
\* long; the others hold one byte, <<1>> before <<2>>.
InitContents(pd, d, first) ==
    {c \in [Files -> Contents] :
        \A f \in Files :
            IF f \notin Leaders(pd, d) THEN c[f] = <<>>
            ELSE IF f = Min(Leaders(pd, d)) THEN c[f] \in first
            ELSE /\ c[f] \in {<<1>>, <<2>>}
                 /\ c[f] = <<2>> => \E g \in Leaders(pd, d) : g < f /\ c[g] = <<1>>}

\* Invocations with one target set, or with two sets of plain files.
OneSetOrPlain(rt) == Len(rt) = 1 \/ Dir \notin Named(rt)

\* The state before main runs, in an environment that is faulty or not (budget).
\* Paths no target reaches are left out of the file system.
InitRun(budget) ==
    /\ run_targets \in RunTargets
    /\ inD \in IF Dir \in Named(run_targets) THEN DirChoices ELSE {{}}
    /\ pdev \in {pd \in [Files -> Devs] :
                   \A f \in Files :
                      pd[f] = 2 => /\ f = Max(TargetFiles)
                                   /\ f \in Reachable(run_targets, inD)
                                   /\ OneSetOrPlain(run_targets)}
    /\ dent \in {d \in InitDents :
                   \A f \in Files :
                      /\ f \notin Reachable(run_targets, inD) => d[f] = 0
                      /\ (f \in Reachable(run_targets, inD) /\ d[f] = 0)
                            => /\ OneSetOrPlain(run_targets)
                               /\ f = Max({0} \cup (Named(run_targets) \cap Files))
                               /\ pdev[f] = 1}
    /\ \E c \in InitContents(pdev, dent,
                             IF Len(run_targets) = 1 THEN {<<>>, <<1>>, <<1, 1>>}
                             ELSE {<<1>>}) :
          data = InitData(pdev, dent, c)
    /\ args \in {c \in Configs : Len(run_targets) > 1 => c.min_size = NoArg}
    /\ fs0 = [dent |-> dent, data |-> data]
    /\ run_paths = <<>>
    /\ cur = 0
    /\ registry = <<>>
    /\ pwmds = <<>>
    /\ by_inode = <<>>
    /\ i = 0
    /\ j = 0
    /\ k = 0
    /\ pc = "start"
    /\ result = "none"
    /\ faulty = budget
    /\ registered = {}
    /\ opened = {}
    /\ calls = {}
    /\ reported = {}
    /\ invocation = 1
    /\ tx = NoTx
    /\ compared = {}
    /\ absorbed = {}

\* One long target set of files: every file listed once or twice, in path
\* order, all but at most two of them twice.
LongSets ==
    {s \in UNION {[1..m -> Files] : m \in (2 * Cardinality(Files) - 2)..(2 * Cardinality(Files) - 1)} :
        /\ IsSorted(s)
        /\ \A x \in 1..(Len(s) - 2) : s[x] # s[x + 2]}

\* The state before main runs on one long target set: files of one byte on
\* one device, each an inode of its own or a hardlink of an earlier file.
InitLong(budget) ==
    /\ run_targets \in {<<s>> : s \in LongSets}
    /\ inD = {}
    /\ pdev = [f \in Files |-> 1]
    /\ dent \in {d \in InitDents : \A f \in Files : d[f] # 0}
    /\ \E c \in InitContents(pdev, dent, {<<1>>}) : data = InitData(pdev, dent, c)
    /\ args \in {c \in Configs : c.min_size = NoArg}
    /\ fs0 = [dent |-> dent, data |-> data]
    /\ run_paths = <<>>
    /\ cur = 0
    /\ registry = <<>>
    /\ pwmds = <<>>
    /\ by_inode = <<>>
    /\ i = 0
    /\ j = 0
    /\ k = 0
    /\ pc = "start"
    /\ result = "none"
    /\ faulty = budget
    /\ registered = {}
    /\ opened = {}
    /\ calls = {}
    /\ reported = {}
    /\ invocation = 1
    /\ tx = NoTx
    /\ compared = {}
    /\ absorbed = {}

\* split_vec's variables while the run is modelled.
SplitIdle ==
    /\ input = <<>>
    /\ delimiter = 0
    /\ chunks = <<>>
    /\ spc = "idle"

\* cmp_read's variables while the run or split_vec is modelled.
CmpIdle ==
    /\ bytes1 = <<>>
    /\ bytes2 = <<>>
    /\ left1 = <<>>
    /\ left2 = <<>>
    /\ cmpres = "idle"

Init == InitRun(TRUE) /\ SplitIdle /\ CmpIdle

\* --------------------------------------------------------------- the run
\* The outcomes of a system call that can succeed only when possible holds:
\* TRUE is success.  A call that cannot succeed fails; one that can succeed
\* fails only in a faulty environment (an I/O error, a permission, a full disk).
Outcomes(possible) == {ok \in BOOLEAN : (ok => possible) /\ (~ok => (~possible \/ faulty))}

\* obtain_run_paths: one PathWithMetadata per target, or Err(1) when a target
\* cannot be canonicalized (it does not exist) or its metadata cannot be read.
Unresolvable == \E s \in DOMAIN run_targets : \E n \in DOMAIN run_targets[s] :
                    run_targets[s][n] \in Files /\ ~Exists(run_targets[s][n])
RunPaths == [s \in DOMAIN run_targets |->
                [n \in DOMAIN run_targets[s] |-> MdOf(run_targets[s][n], s)]]

\* check_all_same_device: Ok iff the records carry at most one st_dev.
AllSameDevice(paths) ==
    Len(paths) <= 1 \/ Cardinality({paths[n].dev : n \in DOMAIN paths}) <= 1
\* A device check that looks at the first target set alone.
DeviceCheckFirstSet == run_paths # <<>> /\ ~AllSameDevice(run_paths[1])
\* main's loop over run_paths that calls check_all_same_device.
DeviceCheckFails == \E s \in DOMAIN run_paths : ~AllSameDevice(run_paths[s])

Finish(res) ==
    /\ pc' = "done"
    /\ result' = res
    /\ cur' = 0
    /\ run_paths' = <<>>

\* main, lines 100-116: no target sets is Ok(()) with nothing done;
\* otherwise obtain_run_paths.
ObtainRunPaths ==
    /\ pc = "start"
    /\ IF run_targets = <<>>
       THEN Finish("Ok")
       ELSE IF Unresolvable
       THEN Finish("Err")
       ELSE \E ok \in Outcomes(TRUE) :
              IF ok
              THEN /\ run_paths' = RunPaths
                   /\ pc' = "check"
                   /\ UNCHANGED <<result, cur>>
              ELSE Finish("Err")
    /\ UNCHANGED <<fsvars, args, faulty, run_targets, registry, pwmds, by_inode, i, j, k,
                   registered, opened, calls, reported, invocation, tx, compared, absorbed,
                   purevars>>

\* main, lines 118-133: check_all_same_device for every target set, then,
\* with -i, the prompt: the user may decline, and main returns Ok(()).
CheckDevices ==
    /\ pc = "check"
    /\ IF DeviceCheckFails THEN Finish("Err")
       ELSE IF Len(run_paths) = 0 THEN Finish("Ok")
       ELSE \E confirmed \in BOOLEAN :
              IF confirmed THEN pc' = "run" /\ UNCHANGED <<result, cur, run_paths>>
              ELSE pc' = "declined" /\ result' = "Ok" /\ cur' = 0 /\ run_paths' = <<>>
    /\ UNCHANGED <<fsvars, args, faulty, run_targets, registry, pwmds, by_inode, i, j, k,
                   registered, opened, calls, reported, invocation, tx, compared, absorbed,
                   purevars>>

\* The orders read_dir may list the present entries of Dir in.
DirEntries == {f \in inD : Exists(f)}
Orders(S) == {o \in [1..Cardinality(S) -> S] : \A a, b \in DOMAIN o : a # b => o[a] # o[b]}

\* A run that is also handed the records of the set before it.
RecordsOfTwoSets ==
    IF cur = 0 THEN run_paths[1] ELSE run_paths[cur] \o run_paths[cur + 1]

\* The records main hands to run for the next target set: run(paths, &config)
\* starts from an empty registry and gets that set's records alone.
RecordsToRun == run_paths[cur + 1]

\* main's loop "for paths in run_paths { run(paths, &config) }": run registers
\* the set's records.  read_dir lists the symlink entry, then the files in
\* some order; metadata of some entries may fail to be read, or read_dir itself.
Run ==
    /\ pc = "run"
    /\ IF cur = Len(run_paths)
       THEN Finish("Ok") /\ UNCHANGED <<registry, registered>>
       ELSE /\ cur' = cur + 1
            /\ pc' = "bucket"
            /\ \E order \in Orders(DirEntries) :
               \E unreadable \in SUBSET DirEntries :
                  /\ faulty \/ unreadable = {}
                  /\ Dir \in {run_paths[cur + 1][n].path : n \in DOMAIN run_paths[cur + 1]}
                        \/ (unreadable = {} /\ order = CHOOSE o \in Orders(DirEntries) : TRUE)
                  /\ LET regs == RegisterAll(RecordsToRun, <<Lnk>> \o order, unreadable)
                     IN /\ registry' = Registry(regs)
                        /\ registered' = registered \cup
                              {<<cur + 1, regs[n].path>> : n \in DOMAIN regs}
            /\ UNCHANGED <<result, run_paths>>
    /\ UNCHANGED <<fsvars, args, faulty, run_targets, pwmds, by_inode, i, j, k,
                   opened, calls, reported, invocation, tx, compared, absorbed, purevars>>

\* run's loop "for (fsize, pwmds) in registry", in HashMap order, and the
\* start of run_one_size: clusters built and the cursors at the first pair.
\* At "sized" the loops of the run_one_size before have ended (i has reached
\* by_inode.len()) and it returns.
RunOneSize ==
    /\ pc \in {"bucket", "sized"}
    /\ tx' = NoTx
    /\ compared' = {}
    /\ absorbed' = {}
    /\ IF DOMAIN registry = {}
       THEN /\ pc' = "run"
            /\ pwmds' = <<>> /\ by_inode' = <<>> /\ i' = 0 /\ j' = 0
            /\ UNCHANGED registry
       ELSE \E fsize \in DOMAIN registry :
              LET b == registry[fsize]
                  cl == Clusters(b)
                  pos == LoopPos(0, 1, Len(cl))
              IN /\ registry' = [sz \in DOMAIN registry \ {fsize} |-> registry[sz]]
                 /\ pc' = IF pos.done THEN "sized" ELSE "cmp"
                 /\ pwmds' = b /\ by_inode' = cl /\ i' = pos.i /\ j' = pos.j
    /\ UNCHANGED <<fsvars, args, faulty, run_targets, run_paths, cur, k, result,
                   registered, opened, calls, reported, invocation, purevars>>

\* ------------------------------------------------------------ hardlink_all
\* Bytes a read call returns at most (cmp_read's buffers).
BuffLen == 1024
Take(s, n) == SubSeq(s, 1, IF n < Len(s) THEN n ELSE Len(s))
Drop(s, n) == SubSeq(s, (IF n < Len(s) THEN n ELSE Len(s)) + 1, Len(s))

RECURSIVE cmp_read(_, _)
\* cmp_read on the bytes of two files, each read filling its buffer.
cmp_read(f1, f2) ==
    LET b1 == Take(f1, BuffLen)
        b2 == Take(f2, BuffLen)
    IN IF Len(b1) # Len(b2) THEN FALSE
       ELSE IF Len(b1) = 0 THEN TRUE
       ELSE IF b1 # b2 THEN FALSE
       ELSE cmp_read(Drop(f1, BuffLen), Drop(f2, BuffLen))

\* A hardlink_all that does not look at cfg.dry_run.
DryRunIgnored == FALSE

\* hardlink_all, line 454: hardlink is called unless cfg.dry_run.
DryRun == args.dry_run

\* keeps.first().unwrap() and the member of replaces the loop is at.
keeps == by_inode[i + 1]
replaces == by_inode[j + 1]
keep == pwmds[keeps[1]]
replace == pwmds[replaces[k]]

\* Loops that step the inner cursor once more than run_one_size does.
NextPairSkipping(by, b, pw) ==
    LET pos == LoopPos(i, b + 1, Len(by))
    IN /\ pc' = IF pos.done THEN "sized" ELSE "cmp"
       /\ pwmds' = pw /\ by_inode' = by /\ i' = pos.i /\ j' = pos.j /\ k' = 0

\* The loops of run_one_size after hardlink_all returned for the pair (i, b):
\* the next pair, or the end of the bucket.
NextPair(by, b, pw) ==
    LET pos == LoopPos(i, b, Len(by))
    IN /\ pc' = IF pos.done THEN "sized" ELSE "cmp"
       /\ pwmds' = pw /\ by_inode' = by /\ i' = pos.i /\ j' = pos.j /\ k' = 0

\* hardlink_all's first statement: cmp of the two first members; an error
\* counts as unequal.  Unequal: j += 1.  Equal: the loop over replaces.
Cmp ==
    /\ pc = "cmp"
    /\ LET f1 == pwmds[replaces[1]].path
           f2 == pwmds[keeps[1]].path
           possible == Exists(f1) /\ Exists(f2)
       IN \E ok \in Outcomes(possible) :
            /\ opened' = opened \cup (IF ~Exists(f1) THEN {}
                                      ELSE IF ~Exists(f2) THEN {f1} ELSE {f1, f2})
            /\ IF ok /\ cmp_read(ContentOf(f1), ContentOf(f2))
               THEN pc' = "member" /\ k' = 1 /\ UNCHANGED <<pwmds, by_inode, i, j>>
               ELSE NextPair(by_inode, j + 1, pwmds)
    /\ compared' = compared \cup {{keeps[1], replaces[1]}}
    /\ tx' = NoTx
    /\ UNCHANGED <<fsvars, args, faulty, run_targets, run_paths, cur, registry, result,
                   registered, calls, reported, invocation, absorbed, purevars>>

\* The end of one iteration of "for replace in replaces": with pushed, the
\* member joins keeps.  After the last member hardlink_all returns true and
\* run_one_size swap_removes cluster j.
EndMember(pushed, pw) ==
    LET by == IF pushed THEN [by_inode EXCEPT ![i + 1] = Append(@, replaces[k])]
              ELSE by_inode
    IN IF k < Len(replaces)
       THEN pc' = "member" /\ k' = k + 1 /\ by_inode' = by /\ pwmds' = pw
            /\ UNCHANGED <<i, j, absorbed>>
       ELSE NextPair(SwapRemove(by, j), j, pw) /\ absorbed' = absorbed \cup {replaces[1]}

Call(op) == <<invocation, cur, op, keep.path, replace.path>>
Report == <<invocation, cur, keep.path, replace.path>>

\* hardlink_all with cfg.dry_run: the merge is reported and the member pushed,
\* hardlink is not called.
Simulate ==
    /\ pc = "member"
    /\ DryRun
    /\ reported' = reported \cup {Report}
    /\ EndMember(TRUE, pwmds)
    /\ UNCHANGED <<fsvars, args, faulty, run_targets, run_paths, cur, registry, result,
                   registered, opened, calls, invocation, tx, compared, purevars>>

\* hardlink, line 433: remove_file(&replace.path).  On Err the member is
\* skipped ("continue").
Remove ==
    /\ pc = "member"
    /\ ~DryRun
    /\ calls' = calls \cup {Call("remove")}
    /\ LET possible == Exists(replace.path)
       IN \E ok \in Outcomes(possible) :
            /\ tx' = [keep |-> keep.path, replace |-> replace.path,
                      a |-> keeps[1], b |-> replaces[1], member |-> replaces[k],
                      ino |-> dent[replace.path],
                      steps |-> <<<<"remove", ok>>>>, ended |-> ~ok]
            /\ IF ok
               THEN /\ dent' = RemoveFile(replace.path).dent
                    /\ data' = RemoveFile(replace.path).data
                    /\ pc' = "link"
                    /\ UNCHANGED <<pwmds, by_inode, i, j, k, absorbed>>
               ELSE /\ EndMember(FALSE, pwmds)
                    /\ UNCHANGED <<dent, data>>
    /\ UNCHANGED <<pdev, inD, fs0, args, faulty, run_targets, run_paths, cur, registry, result,
                   registered, opened, reported, invocation, compared, purevars>>

\* hardlink, line 434: hard_link(&keep.path, &replace.path).
Link ==
    /\ pc = "link"
    /\ calls' = calls \cup {Call("link")}
    /\ LET possible == HardLinkPossible(keep.path, replace.path)
       IN \E ok \in Outcomes(possible) :
            /\ tx' = [tx EXCEPT !.steps = Append(@, <<"link", ok>>)]
            /\ IF ok
               THEN /\ dent' = HardLink(keep.path, replace.path).dent
                    /\ pc' = "reset"
               ELSE /\ pc' = "copy"
                    /\ UNCHANGED dent
    /\ UNCHANGED <<pdev, inD, data, fs0, args, faulty, run_targets, run_paths, cur, registry,
                   pwmds, by_inode, i, j, k, result, registered, opened, reported, invocation,
                   compared, absorbed, purevars>>

\* Strict prefixes of a byte sequence: what an interrupted copy may leave.
Prefixes(bytes) == {SubSeq(bytes, 1, n) : n \in 0..(Len(bytes) - 1)}

\* hardlink, lines 435-439: the hard_link failed, so copy(&keep.path,
\* &replace.path); whatever the copy does, hardlink returns Err and the member
\* is skipped.  A copy that fails leaves no file, or one with part of the bytes.
CopyInstead ==
    /\ pc = "copy"
    /\ calls' = calls \cup {Call("copy")}
    /\ LET possible == CopyPossible(keep.path)
       IN \E ok \in Outcomes(possible) :
            /\ tx' = [tx EXCEPT !.steps = Append(@, <<"copy", ok>>), !.ended = TRUE]
            /\ IF ok
               THEN \E n \in CopyInos(replace.path) :
                       /\ dent' = Copy(keep.path, replace.path, n).dent
                       /\ data' = Copy(keep.path, replace.path, n).data
               ELSE \/ UNCHANGED <<dent, data>>
                    \/ /\ possible
                       /\ \E n \in CopyInos(replace.path) :
                          \E part \in Prefixes(ContentOf(keep.path)) :
                             /\ dent' = WriteFile(replace.path, n, part).dent
                             /\ data' = WriteFile(replace.path, n, part).data
    /\ EndMember(FALSE, pwmds)
    /\ UNCHANGED <<pdev, inD, fs0, args, faulty, run_targets, run_paths, cur, registry, result,
                   registered, opened, reported, invocation, compared, purevars>>

\* hardlink, line 440, and hardlink_all, lines 462-468: replace.reset_md();
\* on Ok the merge is reported and the member pushed to keeps, on Err skipped.
ResetMd ==
    /\ pc = "reset"
    /\ LET possible == Exists(replace.path)
       IN \E ok \in Outcomes(possible) :
            /\ tx' = [tx EXCEPT !.steps = Append(@, <<"reset", ok>>), !.ended = TRUE]
            /\ IF ok
               THEN /\ reported' = reported \cup {Report}
                    /\ EndMember(TRUE, [pwmds EXCEPT ![replaces[k]] =
                                            GetMd(replace.path, @.set)])
               ELSE /\ EndMember(FALSE, pwmds)
                    /\ UNCHANGED reported
    /\ UNCHANGED <<fsvars, args, faulty, run_targets, run_paths, cur, registry, result,
                   registered, opened, calls, invocation, compared, purevars>>

\* The tool is run again with the same arguments, directly after a run that
\* was confirmed, was not a dry run and returned Ok(()).
Reinvoke ==
    /\ pc = "done"
    /\ invocation = 1
    /\ result = "Ok"
    /\ ~DryRun
    /\ invocation' = 2
    /\ pc' = "start"
    /\ result' = "none"
    /\ UNCHANGED <<fsvars, args, faulty, run_targets, run_paths, cur, registry, pwmds, by_inode,
                   i, j, k, registered, opened, calls, reported, tx, compared, absorbed,
                   purevars>>

RunNext ==
    \/ ObtainRunPaths
    \/ CheckDevices
    \/ Run
    \/ RunOneSize
    \/ Cmp
    \/ Simulate
    \/ Remove
    \/ Link
    \/ CopyInstead
    \/ ResetMd

Next == RunNext

\* One invocation, in an environment where any system call may fail.
Spec == Init /\ [][Next]_vars

\* One invocation, where a system call fails only when the state of the file
\* system makes it fail.
InitReliable == InitRun(FALSE) /\ SplitIdle /\ CmpIdle
SpecReliable == InitReliable /\ [][Next]_vars

\* Two invocations in a row with the same arguments, no spurious failures.
NextTwice == RunNext \/ Reinvoke
SpecTwice == InitReliable /\ [][NextTwice]_vars

\* One invocation on one long target set, where any system call may fail.
InitLongSet == InitLong(TRUE) /\ SplitIdle /\ CmpIdle
SpecLong == InitLongSet /\ [][Next]_vars

\* The steps inside the comparison loop of run_one_size.
LoopStep == Cmp \/ Simulate \/ Remove \/ Link \/ CopyInstead \/ ResetMd

\* The long target sets, the loop never stopping as long as it has a step to
\* take: main is one sequential thread, and every call it makes returns.
SpecLoop == SpecLong /\ WF_vars(LoopStep)

\* ---------------------------------------------------------------- split_vec
RECURSIVE SplitLoopSkipping(_, _, _, _, _)
\* A split loop that steps over a delimiter that opens a chunk.
SplitLoopSkipping(inp, delim, n, chunk_start, res) ==
    IF n = Len(inp) THEN [result |-> res, chunk_start |-> chunk_start]
    ELSE IF inp[n + 1] # delim THEN SplitLoopSkipping(inp, delim, n + 1, chunk_start, res)
    ELSE IF n - chunk_start = 0 THEN SplitLoopSkipping(inp, delim, n + 1, n + 1, res)
    ELSE SplitLoopSkipping(inp, delim, n + 1, n + 1,
                           Append(res, SubSeq(inp, chunk_start + 1, n)))

RECURSIVE SplitLoop(_, _, _, _, _)
\* split_vec's loop, lines 568-577, from index n on (0-based as in the code):
\* at a delimiter the chunk [chunk_start, n) is pushed and chunk_start moves
\* past the delimiter, unless the chunk is empty: then "continue" leaves
\* chunk_start where it is.
SplitLoop(inp, delim, n, chunk_start, res) ==
    IF n = Len(inp) THEN [result |-> res, chunk_start |-> chunk_start]
    ELSE IF inp[n + 1] # delim THEN SplitLoop(inp, delim, n + 1, chunk_start, res)
    ELSE IF n - chunk_start = 0 THEN SplitLoop(inp, delim, n + 1, chunk_start, res)
    ELSE SplitLoop(inp, delim, n + 1, n + 1,
                   Append(res, SubSeq(inp, chunk_start + 1, n)))

\* split_vec, lines 565-583: the loop, then the rest of the input as the last
\* chunk when chunk_start is short of the end.
split_vec(inp, delim) ==
    LET r == SplitLoop(inp, delim, 0, 0, <<>>)
    IN IF r.chunk_start < Len(inp)
       THEN Append(r.result, SubSeq(inp, r.chunk_start + 1, Len(inp)))
       ELSE r.result

RECURSIVE RemoveEmpty(_, _)
\* obtain_run_targets, lines 179-184: from the last chunk down, an empty
\* chunk is swap_removed.
RemoveEmpty(cs, n) ==
    IF n = 0 THEN cs
    ELSE RemoveEmpty(IF Len(cs[n]) = 0 THEN SwapRemove(cs, n - 1) ELSE cs, n - 1)

\* Arguments on the command line; any of them may be given as the separator.
Words == {"a", "b", ";"}
Seqs(S, n) == UNION {[1..m -> S] : m \in 0..n}

RunIdle ==
    /\ run_targets = <<>> /\ inD = {} /\ pdev = [f \in Files |-> 1]
    /\ dent = [f \in Files |-> 0] /\ data = <<>>
    /\ args = [dry_run |-> FALSE, min_size |-> NoArg]
    /\ fs0 = [dent |-> dent, data |-> data]
    /\ run_paths = <<>> /\ cur = 0 /\ registry = <<>> /\ pwmds = <<>> /\ by_inode = <<>>
    /\ i = 0 /\ j = 0 /\ k = 0 /\ pc = "idle" /\ result = "none" /\ faulty = FALSE
    /\ registered = {} /\ opened = {} /\ calls = {} /\ reported = {} /\ invocation = 1
    /\ tx = NoTx /\ compared = {} /\ absorbed = {}

SplitInit ==
    /\ input \in Seqs(Words, MaxArgs)
    /\ delimiter \in Words
    /\ chunks = <<>>
    /\ spc = "args"
    /\ RunIdle
    /\ CmpIdle

\* obtain_run_targets, line 178: split_vec(&args, separator).
SplitVec ==
    /\ spc = "args"
    /\ chunks' = split_vec(input, delimiter)
    /\ spc' = "split"
    /\ UNCHANGED <<input, delimiter, fsvars, runvars, cmpvars>>

\* obtain_run_targets, lines 179-185: the empty chunks are dropped and the
\* rest are the target sets.
DropEmpty ==
    /\ spc = "split"
    /\ chunks' = RemoveEmpty(chunks, Len(chunks))
    /\ spc' = "targets"
    /\ UNCHANGED <<input, delimiter, fsvars, runvars, cmpvars>>

SplitNext ==
    \/ SplitVec
    \/ DropEmpty

SplitSpec == SplitInit /\ [][SplitNext]_vars

\* ----------------------------------------------------- cmp_read, read by read
\* The byte streams the two readers yield.
Streams == Seqs({1, 2}, MaxBytes)

\* What Read::read may return for a reader with s left to yield and a buffer
\* of BuffLen bytes: 0 at the end of the stream, otherwise any number of
\* bytes from 1 up to what is left or fits.
ReadLens(s) ==
    IF s = <<>> THEN {0} ELSE 1..(IF Len(s) < BuffLen THEN Len(s) ELSE BuffLen)

CmpInit ==
    /\ bytes1 \in Streams
    /\ bytes2 \in Streams
    /\ left1 = bytes1
    /\ left2 = bytes2
    /\ cmpres = "reading"
    /\ RunIdle
    /\ SplitIdle

\* One iteration of cmp_read's loop, lines 530-540, with both reads Ok.
ReadBoth ==
    /\ cmpres = "reading"
    /\ \E l1 \in ReadLens(left1) : \E l2 \in ReadLens(left2) :
          /\ left1' = Drop(left1, l1)
          /\ left2' = Drop(left2, l2)
          /\ cmpres' = IF l1 # l2 THEN "false"
                       ELSE IF l1 = 0 THEN "true"
                       ELSE IF Take(left1, l1) # Take(left2, l2) THEN "false"
                       ELSE "reading"
    /\ UNCHANGED <<bytes1, bytes2, fsvars, runvars, splitvars>>

\* One iteration in which a read returns Err: "?" makes cmp_read return it.
\* When it is the second read, the first reader has moved on.
ReadFails ==
    /\ cmpres = "reading"
    /\ cmpres' = "Err"
    /\ \/ UNCHANGED left1
       \/ \E l1 \in ReadLens(left1) : left1' = Drop(left1, l1)
    /\ UNCHANGED <<bytes1, bytes2, left2, fsvars, runvars, splitvars>>

CmpNext ==
    \/ ReadBoth
    \/ ReadFails

CmpSpec == CmpInit /\ [][CmpNext]_vars

\* ================================================================== claims
\* What was there before the run.
Existed(p) == fs0.dent[p] # 0
Content0(p) == fs0.data[<<pdev[p], fs0.dent[p]>>]
Untouched == dent = fs0.dent /\ data = fs0.data
\* The paths register pushed for target set s.
RegisteredIn(s) == {p \in Files : <<s, p>> \in registered}
\* main is inside hardlink_all's loop over replaces.
InTransaction == pc \in {"member", "link", "copy", "reset"}

\* C1 (as stated): after the run, every path that was a regular file before
\* the run still exists and has the bytes it had before the run.
C1_NoDataLoss ==
    pc = "done" =>
        \A p \in Files : Existed(p) => Exists(p) /\ ContentOf(p) = Content0(p)

\* C2 (as stated): when run returns for a target set whose registered files
\* are on one device, and it was not a dry run, every two registered files
\* with byte-identical content are the same inode.
C2_IdenticalShareInode ==
    (/\ pc = "run" /\ cur >= 1 /\ ~args.dry_run
     /\ \A p, q \in RegisteredIn(cur) : pdev[p] = pdev[q])
    => \A p, q \in RegisteredIn(cur) :
          (Exists(p) /\ Exists(q) /\ ContentOf(p) = ContentOf(q)) => InoOf(p) = InoOf(q)

\* C3 (as stated): no path ever comes to hold content that differs from the
\* content it had before the run, and two files whose contents differed
\* before the run never share an inode.
C3_DifferentContentApart ==
    /\ \A p \in Files : (Existed(p) /\ Exists(p)) => ContentOf(p) = Content0(p)
    /\ \A p, q \in Files :
          (Existed(p) /\ Existed(q) /\ Content0(p) # Content0(q) /\ Exists(p) /\ Exists(q))
          => InoOf(p) # InoOf(q)

\* C4: with dry_run set no remove_file, hard_link or copy is called and the
\* file system stays as it was before the run, while every member of replaces
\* the loop has passed is reported as hardlinked and has joined keeps.
C4_DryRunMutatesNothing ==
    args.dry_run =>
        /\ calls = {}
        /\ Untouched
        /\ pc \notin {"link", "copy", "reset"}
        /\ (pc = "member" /\ k > 1) =>
              /\ <<invocation, cur, keep.path, pwmds[replaces[k - 1]].path>> \in reported
              /\ keeps[Len(keeps)] = replaces[k - 1]

\* C4's case: a dry run that ended after reporting a merge of two files that
\* are still two inodes.
C4_Witness ==
    /\ args.dry_run /\ pc = "done" /\ result = "Ok"
    /\ \E r \in reported : r[3] # r[4] /\ InoOf(r[3]) # InoOf(r[4])
                                       /\ ContentOf(r[3]) = ContentOf(r[4])

\* C5 (as stated): when the files registered for the target set being run are
\* not all on one device, the run of that set makes no comparison and no
\* remove_file, hard_link or copy call.
C5_MixedDevicesAbort ==
    (cur >= 1 /\ \E p, q \in RegisteredIn(cur) : pdev[p] # pdev[q])
    => /\ pc # "cmp" /\ ~InTransaction
       /\ \A c \in calls : c[2] # cur

\* The min_size in effect: the configured value, never less than 1.
EffectiveMinSize == IF args.min_size = NoArg \/ args.min_size < 1 THEN 1 ELSE args.min_size
Small(p) == Existed(p) /\ Len(Content0(p)) < EffectiveMinSize

\* C6: a regular file smaller than the effective min_size is never
\* registered, never opened by cmp, never the keep or the replace of a
\* remove_file, hard_link or copy call, and keeps its inode and its bytes.
C6_BelowMinSizeUntouched ==
    \A p \in Files :
        Small(p) => /\ \A r \in registered : r[2] # p
                    /\ p \notin opened
                    /\ \A c \in calls : c[4] # p /\ c[5] # p
                    /\ dent[p] = fs0.dent[p]
                    /\ ContentOf(p) = Content0(p)

\* C6's case: a run with --min-size 2 has ended on two one-byte files with
\* the same byte in two inodes, which a run without the option would merge.
C6_Witness ==
    /\ pc = "done" /\ result = "Ok" /\ args.min_size = 2
    /\ \E p, q \in Reachable(run_targets, inD) :
          /\ Small(p) /\ Small(q) /\ Len(Content0(p)) = 1
          /\ Content0(p) = Content0(q) /\ fs0.dent[p] # fs0.dent[q] /\ pdev[p] = pdev[q]

\* C7 (as stated): the second invocation, made directly after a first one
\* that was not a dry run, calls no remove_file, hard_link or copy.
C7_SecondRunDoesNothing == \A c \in calls : c[1] # 2

\* The record obtain_run_paths made of target t of set s before the run.
Md0(t, s) ==
    IF t = Dir THEN DirMd(s)
    ELSE [path |-> t, ino |-> fs0.dent[t], dev |-> pdev[t], size |-> Len(Content0(t)),
          is_symlink |-> FALSE, set |-> s]

\* C8: the records in run's registry and in run_one_size's bucket all come
\* from the target set being run, so keep and replace do; every call made had
\* its keep and its replace registered from the set it was made for; and the
\* records of the sets still to run are as obtain_run_paths made them.
C8_SetsIndependent ==
    /\ \A sz \in DOMAIN registry : \A n \in DOMAIN registry[sz] : registry[sz][n].set = cur
    /\ \A n \in DOMAIN pwmds : pwmds[n].set = cur
    /\ InTransaction => keep.set = cur /\ replace.set = cur
    /\ \A c \in calls : <<c[2], c[4]>> \in registered /\ <<c[2], c[5]>> \in registered
    /\ \A s \in DOMAIN run_paths :
          s > cur => \A n \in DOMAIN run_paths[s] :
                        run_paths[s][n] = Md0(run_targets[s][n], s)

\* C8's case: the second target set is in a transaction after the first set
\* made calls of its own.
C8_Witness ==
    /\ cur = 2 /\ pc = "link"
    /\ \E c \in calls : c[2] = 1

\* The fatal conditions of C9, read off the arguments and the file system
\* before the run: a target that does not exist, a target set whose targets
\* are on two devices (the directory is on device 1).
TargetDev(t) == IF t = Dir THEN 1 ELSE pdev[t]
UnresolvableTarget == \E t \in Named(run_targets) \cap Files : ~Existed(t)
CrossDeviceSet ==
    \E s \in DOMAIN run_targets : \E m, n \in DOMAIN run_targets[s] :
        TargetDev(run_targets[s][m]) # TargetDev(run_targets[s][n])
NothingRun ==
    /\ pc \in {"start", "check", "done"}
    /\ calls = {} /\ opened = {} /\ registered = {} /\ reported = {}
    /\ Untouched

\* C9 (amended): an unresolvable target or a cross-device target set, in any
\* target set, prevents the whole run (no set is run, nothing is mutated) and
\* main returns Err(1); with no targets at all nothing is run either, but
\* main returns Ok(()).
C9_FatalPreventsRun ==
    /\ (UnresolvableTarget \/ CrossDeviceSet) => NothingRun /\ (pc = "done" => result = "Err")
    /\ run_targets = <<>> => NothingRun /\ (pc = "done" => result = "Ok")

\* C9's case: main returned Err(1) for a fatal condition in the second target
\* set, the first set being two files that a run would have merged.
C9_Witness ==
    /\ pc = "done" /\ result = "Err" /\ Len(run_targets) = 2
    /\ \A t, u \in NamedIn(run_targets[1]) : Existed(t) /\ TargetDev(t) = TargetDev(u)
    /\ \E p, q \in NamedIn(run_targets[1]) :
          /\ Existed(p) /\ Existed(q) /\ fs0.dent[p] # fs0.dent[q]
          /\ Content0(p) = Content0(q) /\ Content0(p) # <<>>
    /\ \/ \E t \in NamedIn(run_targets[2]) \cap Files : ~Existed(t)
       \/ \E m, n \in DOMAIN run_targets[2] :
             TargetDev(run_targets[2][m]) # TargetDev(run_targets[2][n])

\* C9 (as stated): each fatal condition, no targets at all included, is
\* surfaced as a failure of the run.
C9_EveryFatalIsFailure ==
    (pc = "done" /\ (UnresolvableTarget \/ CrossDeviceSet \/ run_targets = <<>>))
    => result = "Err"

\* C10: split_vec of k >= 1 elements that all equal the delimiter returns
\* ceil(k/2) chunks.
C10_DelimitersOnly ==
    (/\ spc = "split" /\ Len(input) >= 1
     /\ \A n \in DOMAIN input : input[n] = delimiter)
    => Len(chunks) = (Len(input) + 1) \div 2

\* C10's case, the one of the test: three delimiters give two chunks.
C10_Witness ==
    /\ spc = "split" /\ input = <<";", ";", ";">> /\ delimiter = ";"
    /\ Len(chunks) = 2

\* C11: no path is deleted before a successful replacement for it has been
\* completed: in no reachable state is the replace path of a hardlink
\* transaction absent from the file system.
C11_ReplaceNeverAbsent == tx.replace # 0 => Exists(tx.replace)

\* The steps of the transaction that has ended, its removal having succeeded.
EndedAfterRemoval ==
    tx.ended /\ tx.steps # <<>> /\ tx.steps[1] = <<"remove", TRUE>>
StepOf(op, ok) == \E n \in DOMAIN tx.steps : tx.steps[n] = <<op, ok>>

\* C12: when a hardlink transaction whose removal succeeded ends, the replace
\* path exists with the content of the keep path, unless the hard_link and
\* the copy both failed; and copy is called only directly after a hard_link
\* that failed.
C12_CopyFallback ==
    /\ (EndedAfterRemoval /\ ~(StepOf("link", FALSE) /\ StepOf("copy", FALSE)))
       => /\ Exists(tx.replace) /\ Exists(tx.keep)
          /\ ContentOf(tx.replace) = ContentOf(tx.keep)
    /\ \A n \in DOMAIN tx.steps :
          tx.steps[n][1] = "copy" => n > 1 /\ tx.steps[n - 1] = <<"link", FALSE>>

\* C12's case: the removal succeeded, the hard_link failed and the copy made
\* the replace path a new file with the bytes of the keep path.
C12_Witness ==
    /\ tx.ended /\ tx.steps = <<<<"remove", TRUE>>, <<"link", FALSE>>, <<"copy", TRUE>>>>
    /\ Exists(tx.replace) /\ Exists(tx.keep)
    /\ InoOf(tx.replace) # InoOf(tx.keep)
    /\ ContentOf(tx.replace) = ContentOf(tx.keep) /\ ContentOf(tx.keep) # <<>>

\* A cluster of the worklist is named by its first member, which no push
\* changes.  The pair hardlink_all is about to compare:
PairAtCmp == {keeps[1], replaces[1]}

\* C13: within one size bucket no pair of clusters is compared twice, and a
\* cluster that a merge removed from the worklist is never compared again.
C13_ComparedOnce ==
    pc = "cmp" => /\ PairAtCmp \notin compared
                  /\ keeps[1] \notin absorbed /\ replaces[1] \notin absorbed

\* C13's case: a comparison is due in a bucket where a pair has already
\* compared unequal and a cluster has already been absorbed, the last
\* cluster having been moved by swap_remove.
C13_Witness ==
    /\ pc = "cmp" /\ absorbed # {}
    /\ \E pr \in compared : pr \cap absorbed = {}
    /\ Len(by_inode) >= 3

\* Every two clusters that are in the worklist have been compared.
AllPairsCompared ==
    \A m, n \in DOMAIN by_inode : m # n => {by_inode[m][1], by_inode[n][1]} \in compared

\* C14: the two-cursor loop of run_one_size terminates, whatever the
\* comparisons and transactions do, and when it has every pair of clusters
\* still in the worklist has been compared, no pair more than once.
C14_LoopTerminates ==
    /\ (pc = "cmp") ~> (pc = "sized")
    /\ [](pc = "sized" => AllPairsCompared)
    /\ [](pc = "cmp" => PairAtCmp \notin compared)

\* C14's case: the loop has ended with three clusters left after a merge
\* whose swap_remove moved the last cluster into position j.
C14_Witness ==
    /\ pc = "sized" /\ Len(by_inode) = 3 /\ absorbed # {}
    /\ Cardinality(compared) >= 4

\* How the hardlink call that has returned ended: Err when any of its steps
\* failed (a hard_link that failed is an Err whatever the copy did).
TxEnded == tx.ended /\ tx.steps # <<>>
TxFailed == TxEnded /\ \E n \in DOMAIN tx.steps : ~tx.steps[n][2]
TxSucceeded == TxEnded /\ \A n \in DOMAIN tx.steps : tx.steps[n][2]
\* The record is a member of the cluster whose first member is a.
MemberOf(a, m) ==
    \E c \in DOMAIN by_inode :
        by_inode[c][1] = a /\ \E x \in DOMAIN by_inode[c] : by_inode[c][x] = m

\* C15: a member of B joins cluster A only if its transaction succeeded; a
\* member whose transaction failed is left untouched on disk and is not added
\* to A; the later members of B are still attempted, and B leaves the
\* worklist after its last member whether or not all were linked.
C15_BestEffortMerge ==
    /\ TxFailed => /\ Exists(tx.replace) /\ dent[tx.replace] = tx.ino
                   /\ ~MemberOf(tx.a, tx.member)
    /\ TxSucceeded => MemberOf(tx.a, tx.member)
    /\ TxEnded => \/ pc = "member" /\ keeps[1] = tx.a /\ replaces[1] = tx.b
                  \/ tx.b \in absorbed

\* The path of the record that is member x of cluster c of the worklist.
PathAt(c, x) == pwmds[by_inode[c][x]].path
OnDisk(c, x) == Exists(PathAt(c, x))

\* The members of one cluster that exist are hardlinks of one file.
ClustersAreLinked ==
    \A c \in DOMAIN by_inode : \A x, y \in DOMAIN by_inode[c] :
        (OnDisk(c, x) /\ OnDisk(c, y)) => InoOf(PathAt(c, x)) = InoOf(PathAt(c, y))

\* No file has hardlinks in two clusters.
LinksAreClustered ==
    \A c, d \in DOMAIN by_inode : \A x \in DOMAIN by_inode[c] : \A y \in DOMAIN by_inode[d] :
        (c # d /\ OnDisk(c, x) /\ OnDisk(d, y)) => InoOf(PathAt(c, x)) # InoOf(PathAt(d, y))

\* C16: in a run that is not a dry run, whenever clusters are compared, the
\* records of one cluster share device and inode on disk, and two records
\* with equal (device, inode) are not in different clusters.
C16_ClusterInvariant ==
    (pc = "cmp" /\ ~DryRun) => (ClustersAreLinked /\ LinksAreClustered)

\* C17: in every hardlink transaction the keep path differs from the replace
\* path, and the first member of the keep-side cluster exists on disk with
\* the inode it was recorded with whenever it is opened for comparison or
\* used as the source of hard_link.
C17_KeepSideUntouched ==
    /\ tx.replace # 0 => tx.keep # tx.replace
    /\ pc \in {"cmp", "link"} => /\ Exists(keep.path)
                                 /\ dent[keep.path] = keep.ino

\* C18 (as stated): at every comparison the keep-side cluster has at least
\* as many members as the replace-side cluster, also after merges have
\* removed clusters from the worklist by swap.
C18_KeepSideLarger == pc = "cmp" => Len(keeps) >= Len(replaces)

\* C18 (amended): as long as no cluster has been removed from the worklist,
\* the worklist is in descending order of member count, and so the keep-side
\* cluster of a comparison has at least as many members as the replace side.
C18_DescendingUntilSwap ==
    (pc = "cmp" /\ absorbed = {}) =>
        /\ \A m, n \in DOMAIN by_inode : m < n => Len(by_inode[m]) >= Len(by_inode[n])
        /\ Len(keeps) >= Len(replaces)

\* C18's case: a comparison of a larger cluster with a smaller one, after
\* other comparisons and before any merge.
C18_Witness ==
    /\ pc = "cmp" /\ absorbed = {} /\ compared # {}
    /\ Len(keeps) > Len(replaces)

\* The cached metadata of a record is what the file system holds for its path.
Fresh(r) ==
    /\ Exists(r.path)
    /\ r.ino = dent[r.path] /\ r.dev = pdev[r.path]
    /\ r.size = Len(ContentOf(r.path))

\* C19: whenever the cached inode or size of a record is read, for the
\* registry by size or for the clusters by inode, it equals the metadata
\* its path has on disk at that moment.
C19_CachedMetadataFresh ==
    pc \in {"bucket", "sized"} =>
        \A fsize \in DOMAIN registry : \A n \in DOMAIN registry[fsize] :
            Fresh(registry[fsize][n])

\* C20: cmp_read returns true exactly when the two readers yield the same
\* bytes, however the read calls split the bytes into chunks.
C20_ComparatorExact ==
    /\ cmpres = "true" => bytes1 = bytes2
    /\ cmpres = "false" => bytes1 # bytes2

RECURSIVE Concat(_)
\* The chunks concatenated in order.
Concat(cs) == IF cs = <<>> THEN <<>> ELSE Head(cs) \o Concat(Tail(cs))

\* C21: every chunk returned by split_vec, and every target set returned by
\* obtain_run_targets, is non-empty and holds no element equal to the
\* separator, and the chunks concatenated in order are the input with the
\* separators removed.
C21_ChunksWithoutSeparators ==
    spc \in {"split", "targets"} =>
        /\ \A c \in DOMAIN chunks :
              /\ chunks[c] # <<>>
              /\ \A n \in DOMAIN chunks[c] : chunks[c][n] # delimiter
        /\ Concat(chunks) = SelectSeq(input, LAMBDA w : w # delimiter)
====
